---- MODULE Spec2Model ----
(***************************************************************************)
(* A model of src/src/lib.rs: the dataflash streaming reader               *)
(* (FlashDataFile::read_chunk), the write pump (INavMsp::process_output),  *)
(* the read pump (INavMsp::process_input), the router                      *)
(* (INavMsp::process_route), the request/response facade (flash_summary,   *)
(* set_mode_range, get_mode_ranges) and the single-slot channels and the   *)
(* parser lock between them.                                               *)
(*                                                                         *)
(* A payload is modelled by the flash range it carries, <<address, len>>,  *)
(* and the empty byte vector by <<>>.  u32 arithmetic is kept modulo       *)
(* U32Mod, a scaled-down 2^32 (TLC's integers end at 2^31 - 1).            *)
(***************************************************************************)
EXTENDS Integers, Sequences, FiniteSets, TLC

\* ---------------------------------------------------------------- constants

\* channel::<T>(1): every channel of INavMsp::new holds one value
ChannelCap == 1
\* read_length: 0x1000 of the MspDataFlashRead request
ReadLength == 4096
\* future::timeout(Duration::from_millis(50), chunk_recv.recv())
ChunkTimeoutMs == 50
\* future::timeout(Duration::from_millis(30), ..._recv.recv()) of the facade
FacadeTimeoutMs == 30
\* mode_ranges: [MspModeRange; 20]
NumSlots == 20

\* ------------------------------------------------------------------- bounds

\* the modulus of u32 arithmetic, scaled down from 2^32
U32Mod == 65536
\* read_chunk() calls made on one session
MaxCalls == 4
\* frames submitted to the outbound queue in one behaviour
MaxFrames == 4
\* frames the link's transmit buffer holds before writes time out
LinkCap == 1

\* frames the device sends in one behaviour
MaxInbound == 4

\* used_size_bytes values a session is opened with
UsedSizes == {0, 5000}
\* read_address values of the chunk replies the device may send
ReplyAddrs == {0, 4096, 5000, U32Mod - 904}
\* payload lengths of the chunk replies the device may send
ReplyLens == {0, ReadLength}
\* the flash size of the device of the streaming scenario
StreamSize == ReadLength + 904

VARIABLES
    used_size,          \* FlashDataFile.used_size
    next_address,       \* FlashDataFile.next_address
    received_address,   \* FlashDataFile.received_address
    rpc,                \* where read_chunk() stands
    chunk_timer,        \* ms waited in the current chunk_recv wait
    result,             \* what the last read_chunk() call returned
    calls,              \* read_chunk() calls made so far
    discarded,          \* the current call has discarded a stale reply
    overflowed,         \* an accepted reply's address + length left u32
    chunk_chan,         \* the chunk channel (chunk_send / chunk_recv)
    chunk_closed,       \* every chunk_send has been dropped
    msp_writer,         \* the outbound queue (msp_writer_send / msp_writer_recv)
    submitted,          \* frames accepted by the outbound queue so far
    wpc,                \* where the write pump stands
    wframe,             \* the frame the write pump holds
    last_write,         \* outcome of the last serial.write of the frame held
    link_tx,            \* frames written to the link, not yet read by the device
    link_log,           \* ids of the frames written to the link, in order
    parser,             \* the shared MspParser's state
    parser_lock,        \* who holds the Mutex around the parser
    fpc,                \* where the facade call stands
    fcall,              \* the facade function being called, and its packet data
    facade_timer,       \* ms waited in the facade call's reply wait
    fresult,            \* what the last facade call returned
    reply_chan,         \* the summary, set-mode-range-ack and mode-ranges channels
    link_rx,            \* frames the device has sent, not yet read off the link
    rx_pos,             \* bytes of the first of them already fed to the parser
    arrived,            \* frames the device has sent so far
    ipc,                \* where the read pump stands
    iframe,             \* the frame the read pump has decoded and holds
    msp_reader,         \* the router's inbound channel (msp_reader_send / _recv)
    decoded,            \* ids of the frames the parser has completed, in order
    qpc,                \* where the router stands
    qframe,             \* the frame the router is handling
    taken,              \* ids of the frames the router has received, in order
    pushed              \* ids of the frames whose value the router has pushed

sessionVars == <<used_size, next_address, received_address>>
readerVars == <<rpc, chunk_timer, result, calls, discarded, overflowed>>
chunkVars == <<chunk_chan, chunk_closed>>
writerVars == <<msp_writer, submitted, wpc, wframe, last_write, link_tx, link_log>>
parserVars == <<parser, parser_lock>>
facadeVars == <<fpc, fcall, facade_timer, fresult>>

inboundVars == <<link_rx, rx_pos, arrived, ipc, iframe, msp_reader, decoded>>
routerVars == <<qpc, qframe, taken, pushed>>

vars == <<sessionVars, readerVars, chunkVars, writerVars, parserVars,
          facadeVars, reply_chan, inboundVars, routerVars>>

\* ------------------------------------------------------------------ helpers

\* MspPacket { cmd, direction: ToFlightController, data }, stamped with its
\* place in the submission order
Packet(cmd, data, id) == [cmd |-> cmd, data |-> data, id |-> id]

NoFrame == Packet("none", <<>>, 0)

\* MspDataFlashRead { read_address, read_length: 0x1000 } in a packet
ReadRequest(address, id) ==
    Packet("MSP_DATAFLASH_READ", <<address, ReadLength>>, id)

\* MspDataFlashReply { read_address, payload }
Chunk(address, len) == [read_address |-> address, len |-> len]

Chunks == {Chunk(a, n) : a \in ReplyAddrs, n \in ReplyLens}

\* packet.payload: the bytes of a reply, <<>> when there are none
Payload(packet) ==
    IF packet.len = 0 THEN <<>> ELSE <<packet.read_address, packet.len>>

Pending == [kind |-> "pending", payload |-> <<>>]
Ok(payload) == [kind |-> "Ok", payload |-> payload]
UseAfterClose == [kind |-> "UseAfterClose", payload |-> <<>>]
Disconnected == [kind |-> "Disconnected", payload |-> <<>>]
Panicked == [kind |-> "panic", payload |-> <<>>]
TimedOut == [kind |-> "TimedOut", payload |-> <<>>]

\* (a use-after-close check that lets received_address = used_size through)
ExhaustedStrict(received, used) == received > used

\* self.received_address >= self.used_size
Exhausted(received, used) == received >= used

\* self.next_address > self.received_address || self.next_address == 0
NeedRequest(next, received) == next > received \/ next = 0

\* packet.read_address >= self.next_address
Fresh(packet, next) == packet.read_address >= next

\* packet.read_address + packet.payload.len() as u32
Overflows(packet) == packet.read_address + packet.len >= U32Mod
AddU32(a, b) == (a + b) % U32Mod

\* the top of read_chunk()'s loop: send a request, or go straight to the wait
LoopTop(next, received) == IF NeedRequest(next, received) THEN "send" ELSE "wait"

\* open_flash_data(): the session as constructed
OpenFlashData(used) ==
    /\ used_size = used
    /\ next_address = 0
    /\ received_address = 0

\* MspParser::new(), and the parser after reset()
ParserNew == "idle"

\* ---------------------------------------------------------- read_chunk()

\* the call: the use-after-close check, then the top of the loop
ReadChunkCall ==
    /\ rpc = "idle"
    /\ calls < MaxCalls
    /\ calls' = calls + 1
    /\ discarded' = FALSE
    /\ chunk_timer' = 0
    /\ IF Exhausted(received_address, used_size)
       THEN /\ result' = UseAfterClose
            /\ rpc' = "idle"
       ELSE /\ result' = Pending
            /\ rpc' = LoopTop(next_address, received_address)
    /\ UNCHANGED <<sessionVars, overflowed, chunkVars, writerVars, parserVars,
                   facadeVars, reply_chan,
                   inboundVars, routerVars>>

\* self.msp_writer_send.send(packet).await
ReadChunkSend ==
    /\ rpc = "send"
    /\ Len(msp_writer) < ChannelCap
    /\ submitted < MaxFrames
    /\ msp_writer' = Append(msp_writer, ReadRequest(next_address, submitted + 1))
    /\ submitted' = submitted + 1
    /\ rpc' = "wait"
    /\ chunk_timer' = 0
    /\ UNCHANGED <<sessionVars, result, calls, discarded, overflowed, chunkVars,
                   wpc, wframe, last_write, link_tx, link_log, parserVars,
                   facadeVars, reply_chan,
                   inboundVars, routerVars>>

\* (received_address set to the end of the reply instead of its start)
AcceptChunkEnd(packet) ==
    /\ received_address' = AddU32(packet.read_address, packet.len)
    /\ next_address' = AddU32(packet.read_address, packet.len)
    /\ result' = IF Exhausted(AddU32(packet.read_address, packet.len), used_size)
                 THEN Ok(<<>>)
                 ELSE Ok(Payload(packet))
    /\ rpc' = "idle"

\* (next_address left where it was)
AcceptChunkNoAdvance(packet) ==
    /\ received_address' = packet.read_address
    /\ next_address' = next_address
    /\ result' = IF Exhausted(packet.read_address, used_size)
                 THEN Ok(<<>>)
                 ELSE Ok(Payload(packet))
    /\ rpc' = "idle"

\* Some(packet) with packet.read_address >= next_address, the addition in range
AcceptChunk(packet) ==
    /\ received_address' = packet.read_address
    /\ next_address' = AddU32(packet.read_address, packet.len)
    /\ result' = IF Exhausted(packet.read_address, used_size)
                 THEN Ok(<<>>)
                 ELSE Ok(Payload(packet))
    /\ rpc' = "idle"

\* the addition overflows u32: the build either wraps, or panics after
\* received_address has been assigned
AcceptChunkOverflow(packet) ==
    /\ overflowed' = TRUE
    /\ \/ AcceptChunk(packet)
       \/ /\ received_address' = packet.read_address
          /\ next_address' = next_address
          /\ result' = Panicked
          /\ rpc' = "panicked"

\* (a stale reply sends the reader straight back to the wait)
DiscardChunkWait ==
    /\ rpc' = "wait"
    /\ discarded' = TRUE
    /\ UNCHANGED <<received_address, next_address, result, overflowed>>

\* Some(packet) with packet.read_address < next_address: continue
DiscardChunk ==
    /\ rpc' = LoopTop(next_address, received_address)
    /\ discarded' = TRUE
    /\ UNCHANGED <<received_address, next_address, result, overflowed>>

\* chunk_recv.recv() yields a packet before the timeout
ReadChunkRecv ==
    /\ rpc = "wait"
    /\ chunk_chan # <<>>
    /\ LET packet == Head(chunk_chan) IN
       /\ chunk_chan' = Tail(chunk_chan)
       /\ IF Fresh(packet, next_address)
          THEN /\ IF Overflows(packet)
                  THEN AcceptChunkOverflow(packet)
                  ELSE AcceptChunk(packet) /\ UNCHANGED overflowed
               /\ UNCHANGED discarded
          ELSE DiscardChunk
    /\ chunk_timer' = 0
    /\ UNCHANGED <<used_size, calls, chunk_closed, writerVars, parserVars,
                   facadeVars, reply_chan,
                   inboundVars, routerVars>>

\* (None handled like a timeout: reset the parser and go round again)
ReadChunkDisconnectedRetry ==
    /\ rpc = "wait"
    /\ chunk_chan = <<>>
    /\ chunk_closed
    /\ rpc' = "lock"
    /\ chunk_timer' = 0
    /\ UNCHANGED <<sessionVars, result, calls, discarded, overflowed, chunkVars,
                   writerVars, parserVars, facadeVars, reply_chan,
                   inboundVars, routerVars>>

\* chunk_recv.recv() yields None: the channel is closed and empty
ReadChunkDisconnected ==
    /\ rpc = "wait"
    /\ chunk_chan = <<>>
    /\ chunk_closed
    /\ result' = Disconnected
    /\ rpc' = "idle"
    /\ chunk_timer' = 0
    /\ UNCHANGED <<sessionVars, calls, discarded, overflowed, chunkVars,
                   writerVars, parserVars, facadeVars, reply_chan,
                   inboundVars, routerVars>>

\* the 50 ms pass with nothing received
ReadChunkTimeout ==
    /\ rpc = "wait"
    /\ chunk_chan = <<>>
    /\ ~chunk_closed
    /\ chunk_timer >= ChunkTimeoutMs
    /\ rpc' = "lock"
    /\ chunk_timer' = 0
    /\ UNCHANGED <<sessionVars, result, calls, discarded, overflowed, chunkVars,
                   writerVars, parserVars, facadeVars, reply_chan,
                   inboundVars, routerVars>>

\* (*self.parser_locked.lock().await).reset(), then the top of the loop
ReadChunkReset ==
    /\ rpc = "lock"
    /\ parser_lock = "free"
    /\ parser' = ParserNew
    /\ rpc' = LoopTop(next_address, received_address)
    /\ UNCHANGED <<sessionVars, chunk_timer, result, calls, discarded, overflowed,
                   chunkVars, writerVars, parser_lock, facadeVars, reply_chan,
                   inboundVars, routerVars>>

\* ------------------------------------------------------- process_output()

\* msp_writer_recv.recv().await
WritePumpRecv ==
    /\ wpc = "recv"
    /\ msp_writer # <<>>
    /\ wframe' = Head(msp_writer)
    /\ msp_writer' = Tail(msp_writer)
    /\ wpc' = "write"
    /\ last_write' = "none"
    /\ UNCHANGED <<sessionVars, readerVars, chunkVars, submitted, link_tx,
                   link_log, parserVars, facadeVars, reply_chan,
                   inboundVars, routerVars>>

\* Ok(_) => break
WriteOk ==
    /\ Len(link_tx) < LinkCap
    /\ link_tx' = Append(link_tx, wframe)
    /\ link_log' = Append(link_log, wframe.id)
    /\ last_write' = "ok"
    /\ wpc' = "recv"
    /\ wframe' = NoFrame

\* (a write that timed out gives the frame up)
WriteTimedOutDrops ==
    /\ last_write' = "timeout"
    /\ wpc' = "recv"
    /\ wframe' = NoFrame
    /\ UNCHANGED <<link_tx, link_log>>

\* Err(ref e) if e.kind() == io::ErrorKind::TimedOut => task::sleep(1 ms)
WriteTimedOut ==
    /\ last_write' = "timeout"
    /\ wpc' = "sleep"
    /\ UNCHANGED <<wframe, link_tx, link_log>>

\* Err(e) => eprintln!(..), and the inner loop goes round again
WriteFailed ==
    /\ last_write' = "error"
    /\ wpc' = "write"
    /\ UNCHANGED <<wframe, link_tx, link_log>>

\* serial.write(&output) and the match on its result
WritePumpWrite ==
    /\ wpc = "write"
    /\ \/ WriteOk
       \/ WriteTimedOut
       \/ WriteFailed
    /\ UNCHANGED <<sessionVars, readerVars, chunkVars, msp_writer, submitted,
                   parserVars, facadeVars, reply_chan,
                   inboundVars, routerVars>>

\* task::sleep(Duration::from_millis(1)).await is over
WritePumpWake ==
    /\ wpc = "sleep"
    /\ wpc' = "write"
    /\ UNCHANGED <<sessionVars, readerVars, chunkVars, msp_writer, submitted,
                   wframe, last_write, link_tx, link_log, parserVars,
                   facadeVars, reply_chan,
                   inboundVars, routerVars>>

\* ------------------------------------------------------------ the facade

\* MspModeRange { box_id, aux_channel_index, start_step, end_step }
MspModeRange(box_id, aux, start, end) ==
    [box_id |-> box_id, aux_channel_index |-> aux, start_step |-> start,
     end_step |-> end]

\* ModeRange { index, box_id, aux_channel_index, start_step, end_step }
ModeRange(i, r) ==
    [index |-> i, box_id |-> r.box_id, aux_channel_index |-> r.aux_channel_index,
     start_step |-> r.start_step, end_step |-> r.end_step]

\* if r.start_step != 0 && r.end_step != 0
Active(r) == r.start_step # 0 /\ r.end_step # 0

\* ranges_replay.mode_ranges.iter().enumerate().fold(&mut valid_ranges, ..)
RECURSIVE FoldRanges(_, _, _)
FoldRanges(mode_ranges, i, acc) ==
    IF i = NumSlots
    THEN acc
    ELSE FoldRanges(mode_ranges, i + 1,
                    IF Active(mode_ranges[i])
                    THEN Append(acc, ModeRange(i, mode_ranges[i]))
                    ELSE acc)

ValidRanges(mode_ranges) == FoldRanges(mode_ranges, 0, <<>>)

\* the slot values the device's mode-ranges tables are built of
SlotValues ==
    {MspModeRange(0, 0, 0, 0), MspModeRange(1, 0, 1, 2), MspModeRange(2, 1, 0, 2),
     MspModeRange(3, 2, 1, 0), MspModeRange(4, 0, 0, 0)}

\* MspModeRangesReplay: 20 slots, all zero but slot 3 and, in use, slot 7
Tables ==
    {[i \in 0..(NumSlots - 1) |->
        IF i = 3 THEN a
        ELSE IF i = 7 THEN MspModeRange(5, 3, 2, 3)
        ELSE MspModeRange(0, 0, 0, 0)] : a \in SlotValues}

\* MspDataFlashSummaryReply, by its used_size_bytes
Summaries == {[used_size_bytes |-> u] : u \in UsedSizes}

\* the arguments of the set_mode_range() calls made: index and the four fields
Modes == {<<3, 1, 0, 1, 2>>}

Functions == {"flash_summary", "set_mode_range", "get_mode_ranges"}

NoCall == [fn |-> "none", data |-> <<>>]

\* the command code each function sends
CmdOf(fn) ==
    CASE fn = "flash_summary" -> "MSP_DATAFLASH_SUMMARY"
      [] fn = "set_mode_range" -> "MSP_SET_MODE_RANGE"
      [] fn = "get_mode_ranges" -> "MSP_MODE_RANGES"

\* (set_mode_range() awaiting the channel of get_mode_ranges())
ReplyChanOfPasted(fn) ==
    CASE fn = "flash_summary" -> "summary"
      [] fn = "set_mode_range" -> "mode_ranges"
      [] fn = "get_mode_ranges" -> "mode_ranges"

\* the channel each function awaits: summary_recv, set_mode_range_ack_recv,
\* mode_ranges_recv
ReplyChanOf(fn) ==
    CASE fn = "flash_summary" -> "summary"
      [] fn = "set_mode_range" -> "set_mode_range_ack"
      [] fn = "get_mode_ranges" -> "mode_ranges"

\* what each function makes of the value received
ReturnOf(fn, value) ==
    IF fn = "get_mode_ranges" THEN Ok(ValidRanges(value)) ELSE Ok(value)

\* (a call that first empties the channel it is going to await)
FacadeCallDrains ==
    /\ fpc = "idle"
    /\ \E fn \in Functions :
         \E data \in (IF fn = "set_mode_range" THEN Modes ELSE {<<>>}) :
            /\ fcall' = [fn |-> fn, data |-> data]
            /\ reply_chan' = [reply_chan EXCEPT ![ReplyChanOf(fn)] = <<>>]
    /\ fpc' = "send"
    /\ fresult' = Pending
    /\ UNCHANGED <<sessionVars, readerVars, chunkVars, writerVars, parserVars,
                   facade_timer, inboundVars, routerVars>>

\* a call of flash_summary(), set_mode_range(mode) or get_mode_ranges():
\* the packet is built
FacadeCall ==
    /\ fpc = "idle"
    /\ \E fn \in Functions :
         \E data \in (IF fn = "set_mode_range" THEN Modes ELSE {<<>>}) :
            fcall' = [fn |-> fn, data |-> data]
    /\ fpc' = "send"
    /\ fresult' = Pending
    /\ UNCHANGED <<sessionVars, readerVars, chunkVars, writerVars, parserVars,
                   facade_timer, reply_chan,
                   inboundVars, routerVars>>

\* self.msp_writer_send.send(packet).await
FacadeSend ==
    /\ fpc = "send"
    /\ Len(msp_writer) < ChannelCap
    /\ submitted < MaxFrames
    /\ msp_writer' = Append(msp_writer,
                            Packet(CmdOf(fcall.fn), fcall.data, submitted + 1))
    /\ submitted' = submitted + 1
    /\ fpc' = "wait"
    /\ facade_timer' = 0
    /\ UNCHANGED <<sessionVars, readerVars, chunkVars, wpc, wframe, last_write,
                   link_tx, link_log, parserVars, fcall, fresult, reply_chan,
                   inboundVars, routerVars>>

\* the awaited channel yields a value before the timeout
FacadeRecv ==
    /\ fpc = "wait"
    /\ LET ch == ReplyChanOf(fcall.fn) IN
       /\ reply_chan[ch] # <<>>
       /\ fresult' = ReturnOf(fcall.fn, Head(reply_chan[ch]))
       /\ reply_chan' = [reply_chan EXCEPT ![ch] = Tail(@)]
    /\ fpc' = "idle"
    /\ facade_timer' = 0
    /\ UNCHANGED <<sessionVars, readerVars, chunkVars, writerVars, parserVars,
                   fcall,
                   inboundVars, routerVars>>

\* the 30 ms pass with nothing in the awaited channel
FacadeTimeout ==
    /\ fpc = "wait"
    /\ reply_chan[ReplyChanOf(fcall.fn)] = <<>>
    /\ facade_timer >= FacadeTimeoutMs
    /\ fresult' = TimedOut
    /\ fpc' = "idle"
    /\ facade_timer' = 0
    /\ UNCHANGED <<sessionVars, readerVars, chunkVars, writerVars, parserVars,
                   fcall, reply_chan,
                   inboundVars, routerVars>>

\* -------------------------------------------------------------- the clock

\* the ms left of each wait in progress
ChunkWaitLeft == IF rpc = "wait" THEN ChunkTimeoutMs - chunk_timer ELSE ChunkTimeoutMs
FacadeWaitLeft == IF fpc = "wait" THEN FacadeTimeoutMs - facade_timer ELSE ChunkTimeoutMs

\* time passes, up to the earliest deadline of the waits in progress
Tick ==
    /\ rpc = "wait" \/ fpc = "wait"
    /\ LET ms == IF ChunkWaitLeft < FacadeWaitLeft
                 THEN ChunkWaitLeft ELSE FacadeWaitLeft IN
       /\ ms > 0
       /\ chunk_timer' = IF rpc = "wait" THEN chunk_timer + ms ELSE chunk_timer
       /\ facade_timer' = IF fpc = "wait" THEN facade_timer + ms ELSE facade_timer
    /\ UNCHANGED <<sessionVars, rpc, result, calls, discarded, overflowed,
                   chunkVars, writerVars, parserVars, fpc, fcall, fresult,
                   reply_chan,
                   inboundVars, routerVars>>

\* ------------------------------------------------------------ environment

\* the device takes a frame off the link
DeviceConsume ==
    /\ link_tx # <<>>
    /\ link_tx' = Tail(link_tx)
    /\ UNCHANGED <<sessionVars, readerVars, chunkVars, msp_writer, submitted,
                   wpc, wframe, last_write, link_log, parserVars, facadeVars,
                   reply_chan,
                   inboundVars, routerVars>>

\* the reply of a device whose flash holds StreamSize bytes to a read request
FlashRead(request) ==
    LET address == request.data[1]
        left == IF address < StreamSize THEN StreamSize - address ELSE 0
    IN  Chunk(address, IF left < request.data[2] THEN left ELSE request.data[2])

\* that device takes a read request off the link and replies; the reply
\* reaches the chunk channel, or is lost on the way
DeviceAnswerRead ==
    /\ link_tx # <<>>
    /\ Head(link_tx).cmd = "MSP_DATAFLASH_READ"
    /\ link_tx' = Tail(link_tx)
    /\ \/ /\ Len(chunk_chan) < ChannelCap
          /\ chunk_chan' = Append(chunk_chan, FlashRead(Head(link_tx)))
       \/ UNCHANGED chunk_chan
    /\ UNCHANGED <<sessionVars, readerVars, chunk_closed, msp_writer, submitted,
                   wpc, wframe, last_write, link_log, parserVars, facadeVars,
                   reply_chan,
                   inboundVars, routerVars>>

\* chunk_send.send(chunk).await of the router, for any chunk a device may send
RouterSendChunk ==
    /\ ~chunk_closed
    /\ Len(chunk_chan) < ChannelCap
    /\ \E c \in Chunks : chunk_chan' = Append(chunk_chan, c)
    /\ UNCHANGED <<sessionVars, readerVars, chunk_closed, writerVars, parserVars,
                   facadeVars, reply_chan,
                   inboundVars, routerVars>>

\* the router's send of a decoded reply into the channel of its kind
RouterSend(ch, values) ==
    /\ Len(reply_chan[ch]) < ChannelCap
    /\ \E v \in values : reply_chan' = [reply_chan EXCEPT ![ch] = Append(@, v)]
    /\ UNCHANGED <<sessionVars, readerVars, chunkVars, writerVars, parserVars,
                   facadeVars,
                   inboundVars, routerVars>>

\* mode_ranges_send.send(ranges).await
RouterSendModeRanges == RouterSend("mode_ranges", Tables)

\* set_mode_range_ack_send.send(()).await
RouterSendAck == RouterSend("set_mode_range_ack", {<<>>})

\* summary_send.send(summary).await
RouterSendSummary == RouterSend("summary", Summaries)

\* the last chunk_send is dropped
ChunkSendersDropped ==
    /\ ~chunk_closed
    /\ chunk_closed' = TRUE
    /\ UNCHANGED <<sessionVars, readerVars, chunk_chan, writerVars, parserVars,
                   facadeVars, reply_chan,
                   inboundVars, routerVars>>

\* the read pump feeds one byte that completes no frame:
\* (*parser_locked.lock().await).parse(serial_buf[n]) is Ok(None) or Err
ReadPumpParse ==
    /\ parser_lock = "free"
    /\ parser' = IF parser = "idle" THEN "partial" ELSE "idle"
    /\ UNCHANGED <<sessionVars, readerVars, chunkVars, writerVars, parser_lock,
                   facadeVars, reply_chan,
                   inboundVars, routerVars>>

\* ------------------------------------------------------- inbound frames

\* MspPacket { cmd, direction, data } as decoded off the link, stamped with
\* its place in the arrival order; data is its length in bytes and what the
\* bytes hold
Frame(direction, cmd, data, id) ==
    [direction |-> direction, cmd |-> cmd, data |-> data, id |-> id]

Data(len, body) == [len |-> len, body |-> body]

NoInbound == Frame("none", "none", Data(0, <<>>), 0)

\* the packed size of MspModeRangesReplay: [MspModeRange; 20], 4 bytes each
ModeRangesBytes == NumSlots * 4
\* the packed size of MspDataFlashSummaryReply: the flags byte and three u32
SummaryBytes == 1 + 4 + 4 + 4
\* let mut s = [0; 4]: the address prefix of a dataflash-read reply
AddressBytes == 4

\* (the address prefix read most significant byte first)
FromBeBytes(s) == 16777216 * s[1] + 65536 * s[2] + 256 * s[3] + s[4]

\* u32::from_le_bytes(s)
FromLeBytes(s) == s[1] + 256 * s[2] + 65536 * s[3] + 16777216 * s[4]

\* the four bytes a device puts in front of the flash bytes of a reply
ToLeBytes(a) ==
    <<a % 256, (a \div 256) % 256, (a \div 65536) % 256, (a \div 16777216) % 256>>

\* the command codes process_route() acts on
Recognized ==
    {"MSP_MODE_RANGES", "MSP_SET_MODE_RANGE", "MSP_DATAFLASH_SUMMARY",
     "MSP_DATAFLASH_READ"}

\* whether unpack_from_slice(&packet.data).unwrap() and &packet.data[..4]
\* come through: the slice has the packed size, or at least four bytes
Decodes(frame) ==
    CASE frame.cmd = "MSP_MODE_RANGES" -> frame.data.len = ModeRangesBytes
      [] frame.cmd = "MSP_DATAFLASH_SUMMARY" -> frame.data.len = SummaryBytes
      [] frame.cmd = "MSP_DATAFLASH_READ" -> frame.data.len >= AddressBytes
      [] OTHER -> TRUE

\* the channel the router sends the value of a frame to
RouteChanOf(cmd) ==
    CASE cmd = "MSP_MODE_RANGES" -> "mode_ranges"
      [] cmd = "MSP_SET_MODE_RANGE" -> "set_mode_range_ack"
      [] cmd = "MSP_DATAFLASH_SUMMARY" -> "summary"
      [] cmd = "MSP_DATAFLASH_READ" -> "chunk"

\* the value the router makes of a frame that decodes
RouteValueOf(frame) ==
    CASE frame.cmd = "MSP_MODE_RANGES" -> frame.data.body
      [] frame.cmd = "MSP_SET_MODE_RANGE" -> <<>>
      [] frame.cmd = "MSP_DATAFLASH_SUMMARY" -> frame.data.body
      [] frame.cmd = "MSP_DATAFLASH_READ" ->
            Chunk(FromLeBytes(frame.data.body), frame.data.len - AddressBytes)

\* a table with slot 3 in use
TableSent ==
    [i \in 0..(NumSlots - 1) |->
        IF i = 3 THEN MspModeRange(1, 0, 1, 2) ELSE MspModeRange(0, 0, 0, 0)]

\* the frames a device may send, before they are stamped: the four replies,
\* well formed and not, a command the router does not know, and a frame with
\* the direction of a request
InboundFrames ==
    {Frame("FromFlightController", "MSP_DATAFLASH_READ",
           Data(AddressBytes + ReadLength, ToLeBytes(a)), 0) : a \in {0, ReadLength}}
    \cup
    {Frame("FromFlightController", "MSP_DATAFLASH_READ", Data(3, <<0, 16, 0>>), 0),
     Frame("FromFlightController", "MSP_DATAFLASH_SUMMARY",
           Data(SummaryBytes, [used_size_bytes |-> StreamSize]), 0),
     Frame("FromFlightController", "MSP_DATAFLASH_SUMMARY",
           Data(SummaryBytes - 1, <<>>), 0),
     Frame("FromFlightController", "MSP_MODE_RANGES",
           Data(ModeRangesBytes, TableSent), 0),
     Frame("FromFlightController", "MSP_MODE_RANGES",
           Data(ModeRangesBytes - 4, <<>>), 0),
     Frame("FromFlightController", "MSP_SET_MODE_RANGE", Data(0, <<>>), 0),
     Frame("FromFlightController", "MSP_STATUS", Data(0, <<>>), 0),
     Frame("ToFlightController", "MSP_DATAFLASH_SUMMARY",
           Data(SummaryBytes, [used_size_bytes |-> StreamSize]), 0)}

\* the replies a device sends on its own or late, well formed
ReplyFrames ==
    {Frame("FromFlightController", "MSP_DATAFLASH_READ",
           Data(AddressBytes + ReadLength, ToLeBytes(0)), 0),
     Frame("FromFlightController", "MSP_DATAFLASH_SUMMARY",
           Data(SummaryBytes, [used_size_bytes |-> StreamSize]), 0)}

\* those, a reply for the second page, and a reply cut short
OrderFrames ==
    ReplyFrames \cup
    {Frame("FromFlightController", "MSP_DATAFLASH_READ",
           Data(AddressBytes + ReadLength, ToLeBytes(ReadLength)), 0),
     Frame("FromFlightController", "MSP_DATAFLASH_READ", Data(3, <<0, 16, 0>>), 0)}

\* the device sends one of `frames`
LinkArrive(frames) ==
    /\ arrived < MaxInbound
    /\ \E f \in frames :
          link_rx' = Append(link_rx, [f EXCEPT !.id = arrived + 1])
    /\ arrived' = arrived + 1
    /\ UNCHANGED <<sessionVars, readerVars, chunkVars, writerVars, parserVars,
                   facadeVars, reply_chan, rx_pos, ipc, iframe, msp_reader,
                   decoded, routerVars>>

LinkArriveAny == LinkArrive(InboundFrames)

\* the used size a device that keeps logging reports to the request with
\* submission number id
DeviceUsed(id) == StreamSize + id

\* the reply of that device to a request: the summary, the ack, the table,
\* or the flash bytes asked for
ReplyTo(request) ==
    CASE request.cmd = "MSP_DATAFLASH_SUMMARY" ->
            Data(SummaryBytes, [used_size_bytes |-> DeviceUsed(request.id)])
      [] request.cmd = "MSP_SET_MODE_RANGE" -> Data(0, <<>>)
      [] request.cmd = "MSP_MODE_RANGES" -> Data(ModeRangesBytes, TableSent)
      [] request.cmd = "MSP_DATAFLASH_READ" ->
            Data(AddressBytes + FlashRead(request).len,
                 ToLeBytes(FlashRead(request).read_address))

\* the device takes a request off the link and puts its reply on the link
DeviceAnswer ==
    /\ link_tx # <<>>
    /\ link_tx' = Tail(link_tx)
    /\ link_rx' = Append(link_rx,
                         Frame("FromFlightController", Head(link_tx).cmd,
                               ReplyTo(Head(link_tx)), arrived + 1))
    /\ arrived' = arrived + 1
    /\ UNCHANGED <<sessionVars, readerVars, chunkVars, msp_writer, submitted,
                   wpc, wframe, last_write, link_log, parserVars, facadeVars,
                   reply_chan, rx_pos, ipc, iframe, msp_reader, decoded,
                   routerVars>>

LinkArriveReply == LinkArrive(ReplyFrames)

LinkArriveOrder == LinkArrive(OrderFrames)

\* -------------------------------------------------------- process_input()

\* parse(serial_buf[n]) completes the frame: Ok(Some(p)); the MutexGuard of
\* the match scrutinee lives to the end of the match
FeedCompletes ==
    /\ parser' = ParserNew
    /\ parser_lock' = "pump"
    /\ iframe' = Head(link_rx)
    /\ decoded' = Append(decoded, Head(link_rx).id)
    /\ ipc' = "send"

\* (the frame is let go when the router's inbound channel is full)
PumpSendTry ==
    /\ ipc = "send"
    /\ msp_reader' = IF Len(msp_reader) < ChannelCap
                     THEN Append(msp_reader, iframe) ELSE msp_reader
    /\ parser_lock' = "free"
    /\ ipc' = "read"
    /\ iframe' = NoInbound
    /\ UNCHANGED <<sessionVars, readerVars, chunkVars, writerVars, parser,
                   facadeVars, reply_chan, link_rx, rx_pos, arrived, decoded,
                   routerVars>>

\* one turn of `for n in 0..bytes`: the lock is taken and the byte parsed.
\* A frame is its leading bytes and its last byte; the last byte completes
\* the frame if the parser still holds the leading ones, and is dropped as
\* noise if a reset() has come between
PumpFeed ==
    /\ ipc = "read"
    /\ link_rx # <<>>
    /\ parser_lock = "free"
    /\ IF rx_pos = 0
       THEN /\ parser' = "partial"
            /\ rx_pos' = 1
            /\ UNCHANGED <<link_rx, parser_lock, iframe, decoded, ipc>>
       ELSE /\ rx_pos' = 0
            /\ link_rx' = Tail(link_rx)
            /\ IF parser = "partial"
               THEN FeedCompletes
               ELSE UNCHANGED <<parser, parser_lock, iframe, decoded, ipc>>
    /\ UNCHANGED <<sessionVars, readerVars, chunkVars, writerVars, facadeVars,
                   reply_chan, arrived, msp_reader, routerVars>>

\* msp_reader_send.send(p).await, then the end of the match: the lock goes
PumpSend ==
    /\ ipc = "send"
    /\ Len(msp_reader) < ChannelCap
    /\ msp_reader' = Append(msp_reader, iframe)
    /\ parser_lock' = "free"
    /\ ipc' = "read"
    /\ iframe' = NoInbound
    /\ UNCHANGED <<sessionVars, readerVars, chunkVars, writerVars, parser,
                   facadeVars, reply_chan, link_rx, rx_pos, arrived, decoded,
                   routerVars>>

\* -------------------------------------------------------- process_route()

\* .unwrap() on the Err of unpack_from_slice, or &packet.data[..4] out of
\* range: the task panics
RouteUndecodable(frame) ==
    /\ qpc' = "panicked"
    /\ qframe' = frame

\* msp_reader_recv.recv().await, the direction check, the match on the
\* command code and the decoding, up to the send
RouterRecv ==
    /\ qpc = "recv"
    /\ msp_reader # <<>>
    /\ LET frame == Head(msp_reader) IN
       /\ msp_reader' = Tail(msp_reader)
       /\ taken' = Append(taken, frame.id)
       /\ IF frame.direction # "FromFlightController" \/ frame.cmd \notin Recognized
          THEN /\ qpc' = "recv"
               /\ qframe' = NoInbound
          ELSE IF Decodes(frame)
               THEN /\ qpc' = "send"
                    /\ qframe' = frame
               ELSE RouteUndecodable(frame)
    /\ UNCHANGED <<sessionVars, readerVars, chunkVars, writerVars, parserVars,
                   facadeVars, reply_chan, link_rx, rx_pos, arrived, ipc, iframe,
                   decoded, pushed>>

\* mode_ranges_send / set_mode_range_ack_send / summary_send / chunk_send
\* .send(value).await
RouterDispatch ==
    /\ qpc = "send"
    /\ LET ch == RouteChanOf(qframe.cmd)
           value == RouteValueOf(qframe)
       IN  IF ch = "chunk"
           THEN /\ Len(chunk_chan) < ChannelCap
                /\ chunk_chan' = Append(chunk_chan, value)
                /\ UNCHANGED reply_chan
           ELSE /\ Len(reply_chan[ch]) < ChannelCap
                /\ reply_chan' = [reply_chan EXCEPT ![ch] = Append(@, value)]
                /\ UNCHANGED chunk_chan
    /\ pushed' = Append(pushed, qframe.id)
    /\ qpc' = "recv"
    /\ qframe' = NoInbound
    /\ UNCHANGED <<sessionVars, readerVars, chunk_closed, writerVars, parserVars,
                   facadeVars, inboundVars, taken>>

\* ----------------------------------------------------------- specifications

\* INavMsp::new(), start() and a session opened with any used size
Init ==
    /\ \E used \in UsedSizes : OpenFlashData(used)
    /\ rpc = "idle"
    /\ chunk_timer = 0
    /\ result = Pending
    /\ calls = 0
    /\ discarded = FALSE
    /\ overflowed = FALSE
    /\ chunk_chan = <<>>
    /\ chunk_closed = FALSE
    /\ msp_writer = <<>>
    /\ submitted = 0
    /\ wpc = "recv"
    /\ wframe = NoFrame
    /\ last_write = "none"
    /\ link_tx = <<>>
    /\ link_log = <<>>
    /\ parser = ParserNew
    /\ parser_lock = "free"
    /\ fpc = "idle"
    /\ fcall = NoCall
    /\ facade_timer = 0
    /\ fresult = Pending
    /\ reply_chan = [summary |-> <<>>, set_mode_range_ack |-> <<>>,
                     mode_ranges |-> <<>>]
    /\ link_rx = <<>>
    /\ rx_pos = 0
    /\ arrived = 0
    /\ ipc = "read"
    /\ iframe = NoInbound
    /\ msp_reader = <<>>
    /\ decoded = <<>>
    /\ qpc = "recv"
    /\ qframe = NoInbound
    /\ taken = <<>>
    /\ pushed = <<>>

\* the streaming reader against any sequence of chunk replies
Next ==
    \/ ReadChunkCall
    \/ ReadChunkSend
    \/ ReadChunkRecv
    \/ ReadChunkDisconnected
    \/ ReadChunkTimeout
    \/ ReadChunkReset
    \/ Tick
    \/ WritePumpRecv
    \/ WritePumpWrite
    \/ WritePumpWake
    \/ DeviceConsume
    \/ RouterSendChunk
    \/ ChunkSendersDropped

Spec == Init /\ [][Next]_vars

\* the streaming reader against a device whose flash holds StreamSize bytes
InitStream == Init /\ used_size = StreamSize

NextStream ==
    \/ ReadChunkCall
    \/ ReadChunkSend
    \/ ReadChunkRecv
    \/ ReadChunkTimeout
    \/ ReadChunkReset
    \/ Tick
    \/ WritePumpRecv
    \/ WritePumpWrite
    \/ WritePumpWake
    \/ DeviceAnswerRead
    \/ ReadPumpParse

SpecStream == InitStream /\ [][NextStream]_vars

\* the facade against any sequence of replies
InitFacade == Init /\ used_size = 0

NextFacade ==
    \/ FacadeCall
    \/ FacadeSend
    \/ FacadeRecv
    \/ FacadeTimeout
    \/ Tick
    \/ WritePumpRecv
    \/ WritePumpWrite
    \/ WritePumpWake
    \/ DeviceConsume
    \/ RouterSendModeRanges
    \/ RouterSendAck
    \/ RouterSendSummary

SpecFacade == InitFacade /\ [][NextFacade]_vars

\* the write pump fed by the streaming reader and the facade, no reply arriving
NextPump ==
    \/ ReadChunkCall
    \/ ReadChunkSend
    \/ ReadChunkTimeout
    \/ ReadChunkReset
    \/ FacadeCall
    \/ FacadeSend
    \/ FacadeTimeout
    \/ Tick
    \/ WritePumpRecv
    \/ WritePumpWrite
    \/ WritePumpWake
    \/ DeviceConsume

SpecPump == InitStream /\ [][NextPump]_vars

\* the inbound pipeline: any frames arriving, the read pump, the router, and
\* the streaming reader at the chunk channel
NextRoute ==
    \/ ReadChunkCall
    \/ ReadChunkSend
    \/ ReadChunkRecv
    \/ ReadChunkTimeout
    \/ ReadChunkReset
    \/ Tick
    \/ WritePumpRecv
    \/ WritePumpWrite
    \/ WritePumpWake
    \/ DeviceConsume
    \/ LinkArriveReply
    \/ PumpFeed
    \/ PumpSend
    \/ RouterRecv
    \/ RouterDispatch

SpecRoute == InitStream /\ [][NextRoute]_vars

\* the read pump and the router against any frames, nothing taking the values
NextInbound ==
    \/ LinkArriveAny
    \/ PumpFeed
    \/ PumpSend
    \/ RouterRecv
    \/ RouterDispatch

SpecInbound == InitStream /\ [][NextInbound]_vars

\* the inbound pipeline with the streaming reader at the chunk channel, the
\* write pump not running
NextOrder ==
    \/ ReadChunkCall
    \/ ReadChunkSend
    \/ ReadChunkRecv
    \/ ReadChunkTimeout
    \/ ReadChunkReset
    \/ Tick
    \/ LinkArriveOrder
    \/ PumpFeed
    \/ PumpSend
    \/ RouterRecv
    \/ RouterDispatch

SpecOrder == InitStream /\ [][NextOrder]_vars

\* the whole link: the facade, the write pump, a device that answers every
\* request, the read pump and the router
NextSystem ==
    \/ FacadeCall
    \/ FacadeSend
    \/ FacadeRecv
    \/ FacadeTimeout
    \/ Tick
    \/ WritePumpRecv
    \/ WritePumpWrite
    \/ WritePumpWake
    \/ DeviceAnswer
    \/ PumpFeed
    \/ PumpSend
    \/ RouterRecv
    \/ RouterDispatch

SpecSystem == InitFacade /\ [][NextSystem]_vars

\* the facade and the write pump, no reply arriving
NextSubmit ==
    \/ FacadeCall
    \/ FacadeSend
    \/ FacadeTimeout
    \/ Tick
    \/ WritePumpRecv
    \/ WritePumpWrite
    \/ WritePumpWake
    \/ DeviceConsume

\* the caller's task and the write pump are scheduled again and again and
\* time passes; the device is free never to read the link
FairSubmit ==
    /\ WF_vars(FacadeSend)
    /\ WF_vars(FacadeTimeout)
    /\ WF_vars(Tick)
    /\ WF_vars(WritePumpRecv)
    /\ WF_vars(WritePumpWrite)
    /\ WF_vars(WritePumpWake)

SpecSubmitFair == InitFacade /\ [][NextSubmit]_vars /\ FairSubmit

\* the tasks are scheduled again and again and time passes; the caller of
\* read_chunk() and the device are free to do nothing
FairOrder ==
    /\ WF_vars(ReadChunkSend)
    /\ WF_vars(ReadChunkRecv)
    /\ WF_vars(ReadChunkTimeout)
    /\ WF_vars(ReadChunkReset)
    /\ WF_vars(Tick)
    /\ WF_vars(PumpFeed)
    /\ WF_vars(PumpSend)
    /\ WF_vars(RouterRecv)
    /\ WF_vars(RouterDispatch)

SpecOrderFair == InitStream /\ [][NextOrder]_vars /\ FairOrder

\* ------------------------------------------------------------------ claims

\* the address of the read request the step submits
RequestedAddress == msp_writer'[Len(msp_writer')].data[1]

\* the streaming scenario, the second reply leaving received_address at
\* `received2` and next_address at `next2`
StreamSteps(received2, next2) ==
    /\ (rpc = "idle" /\ calls' = calls + 1 /\ calls' <= 3) => rpc' = "send"
    /\ (rpc = "send" /\ submitted' = submitted + 1) =>
          RequestedAddress = CASE calls = 1 -> 0
                               [] calls = 2 -> ReadLength
                               [] calls = 3 -> StreamSize
                               [] OTHER -> -1
    /\ (rpc # "idle" /\ rpc' = "idle" /\ calls = 1) =>
          /\ result' = Ok(<<0, ReadLength>>)
          /\ received_address' = 0
          /\ next_address' = ReadLength
    /\ (rpc # "idle" /\ rpc' = "idle" /\ calls = 2) =>
          /\ result' = Ok(<<ReadLength, 904>>)
          /\ received_address' = received2
          /\ next_address' = next2
    /\ (rpc # "idle" /\ rpc' = "idle" /\ calls = 3) => result' = Ok(<<>>)
    /\ (rpc = "idle" /\ calls' = 4) => (rpc' = "idle" /\ result' = UseAfterClose)

\* C1 as stated: with used_size = 5000, the first call requests address 0 and
\* returns the 4096 bytes replied; the second requests 4096 and, on the reply
\* of 904 bytes, received_address becomes 5000 and the call returns them; the
\* third returns the empty result; the fourth fails with use-after-close.
C1_StreamAsStated == [][StreamSteps(StreamSize, StreamSize)]_vars

\* C1, amended: as stated, but the reply of 904 bytes at 4096 leaves
\* received_address at 4096 (next_address becomes 5000), and the third call
\* requests address 5000 and returns the empty result on the reply at 5000,
\* which sets received_address to 5000.
C1_Stream ==
    [][/\ StreamSteps(ReadLength, StreamSize)
       /\ (rpc # "idle" /\ rpc' = "idle" /\ calls = 3) =>
             (received_address' = StreamSize /\ next_address' = StreamSize)]_vars

C1_Witness ==
    calls = 4 /\ result = UseAfterClose /\ received_address = StreamSize

\* C2: read_chunk() has returned the empty Ok result only with the session
\* exhausted, received_address >= used_size.
C2_EmptyOnlyWhenExhausted ==
    (rpc = "idle" /\ result = Ok(<<>>)) => received_address >= used_size

\* C3: a read_chunk() call made with received_address >= used_size fails at
\* once with use-after-close: no request is queued, the parser is not touched,
\* next_address and received_address stay.
C3_ExhaustedIsTerminal ==
    [][(rpc = "idle" /\ calls' = calls + 1 /\ received_address >= used_size) =>
          /\ result' = UseAfterClose
          /\ rpc' = "idle"
          /\ UNCHANGED <<msp_writer, submitted, parser, parser_lock,
                         next_address, received_address>>]_vars

C3_Witness ==
    result = UseAfterClose /\ used_size > 0 /\ received_address >= used_size

\* C4 as stated: received_address <= next_address <= used_size in every
\* reachable state.
C4_AsStated == received_address <= next_address /\ next_address <= used_size

\* C4, amended: received_address <= next_address in every reachable state in
\* which no accepted reply had read_address + payload length beyond u32.
C4_ReceivedNotPastNext == ~overflowed => received_address <= next_address

C4_Witness ==
    /\ ~overflowed
    /\ result.kind = "Ok"
    /\ received_address < next_address
    /\ next_address > used_size
    /\ used_size > 0

\* C5: whenever the wait of read_chunk() has timed out, the parser is reset
\* and a request for the unchanged next_address is sent before the next wait.
C5_TimeoutResends ==
    [][(rpc = "lock" /\ rpc' # "lock") =>
          /\ parser' = ParserNew
          /\ rpc' = "send"
          /\ UNCHANGED <<next_address, received_address>>]_vars

\* the reader leaves a wait on a channel that is closed and empty
LeavesClosedWait ==
    rpc = "wait" /\ chunk_closed /\ chunk_chan = <<>> /\ rpc' # "wait"

\* C9: read_chunk() waiting on the closed, empty chunk channel returns the
\* device-disconnected error, it does not retry, and next_address and
\* received_address stay.
C9_ClosedChannelDisconnects ==
    [][LeavesClosedWait =>
          /\ rpc' = "idle"
          /\ result' = Disconnected
          /\ UNCHANGED <<next_address, received_address, msp_writer, submitted>>]_vars

C9_Witness == result = Disconnected /\ rpc = "idle" /\ next_address > 0

\* read_chunk() takes a reply with read_address < next_address off the channel
TakesStale ==
    /\ rpc = "wait"
    /\ chunk_chan # <<>>
    /\ Head(chunk_chan).read_address < next_address
    /\ chunk_chan' = Tail(chunk_chan)

\* C10 as stated: a stale reply is discarded, the addresses stay, and the
\* reader goes back to waiting without a new request.
C10_AsStated ==
    [][TakesStale =>
          /\ rpc' = "wait"
          /\ UNCHANGED <<next_address, received_address, msp_writer, submitted>>]_vars

\* C10, amended: a stale reply is discarded without returning, the addresses
\* stay, and the loop starts over: with next_address > received_address the
\* reader sends a new request before it waits again, otherwise it waits.
C10_StaleRestartsLoop ==
    [][TakesStale =>
          /\ UNCHANGED <<next_address, received_address, result, calls>>
          /\ rpc' = IF next_address > received_address THEN "send" ELSE "wait"]_vars

C10_Witness == discarded /\ rpc = "send" /\ submitted >= 1

\* the ids of the frames of a queue
Ids(frames) == [i \in 1..Len(frames) |-> frames[i].id]

\* C8: the frames accepted by the outbound queue, in the order accepted, are
\* the frames written to the link, then the frame the pump holds (through any
\* number of timed-out writes), then the frames still queued: none dropped,
\* written twice or overtaken.
C8_WriteOrder ==
    link_log \o Ids(IF wpc = "recv" THEN <<>> ELSE <<wframe>>) \o Ids(msp_writer)
        = [i \in 1..submitted |-> i]

C8_Witness ==
    /\ Len(link_log) >= 2
    /\ wpc = "write"
    /\ last_write = "timeout"
    /\ msp_writer # <<>>

\* the channel of the function called, by the names of INavMsp's fields
AwaitedChannel ==
    CASE fcall.fn = "flash_summary" -> "summary"
      [] fcall.fn = "set_mode_range" -> "set_mode_range_ack"
      [] fcall.fn = "get_mode_ranges" -> "mode_ranges"

\* C6: the deadline starts when the request has been submitted; a facade call
\* returns TimedOut exactly when its own channel is empty at the deadline of
\* 30 ms, whatever the other channels hold, and otherwise takes the value of
\* its own channel.
C6_TimedOutWithoutReply ==
    [][/\ (fpc = "send" /\ fpc' = "wait") => facade_timer' = 0
       /\ (fpc = "wait" /\ fpc' = "idle") =>
             IF reply_chan[AwaitedChannel] = <<>>
             THEN /\ fresult' = TimedOut
                  /\ facade_timer >= FacadeTimeoutMs
                  /\ UNCHANGED reply_chan
             ELSE /\ fresult'.kind = "Ok"
                  /\ reply_chan' = [reply_chan EXCEPT ![AwaitedChannel] = Tail(@)]]_vars

C6_Witness ==
    /\ fpc = "idle"
    /\ fresult = TimedOut
    /\ fcall.fn = "set_mode_range"
    /\ reply_chan["mode_ranges"] # <<>>
    /\ reply_chan["summary"] # <<>>

\* the slots of a table with start_step != 0 or end_step != 0, ascending, each
\* tagged with its index
SlotIndexes == [k \in 1..NumSlots |-> k - 1]
InUse(table) ==
    LET used == SelectSeq(SlotIndexes,
                          LAMBDA i : table[i].start_step # 0 \/ table[i].end_step # 0)
    IN  [k \in 1..Len(used) |-> ModeRange(used[k], table[used[k]])]

\* C7: a successful get_mode_ranges() returns exactly the slots of the table
\* received with start_step != 0 or end_step != 0, in ascending index order.
C7_ReturnsSlotsInUse ==
    [][(/\ fpc = "wait"
        /\ fcall.fn = "get_mode_ranges"
        /\ reply_chan["mode_ranges"] # <<>>
        /\ fpc' = "idle") =>
          fresult' = Ok(InUse(Head(reply_chan["mode_ranges"])))]_vars

\* C11: a link write that fails with an error that is not timeout-class is
\* reported and given up: the pump goes back to the outbound queue for the
\* next frame and does not write the failed frame again.
C11_FailedWriteMovesOn ==
    [][(wpc = "write" /\ last_write' = "error") =>
          /\ wpc' = "recv"
          /\ wframe' = NoFrame
          /\ UNCHANGED <<link_tx, link_log>>]_vars

\* the router receives the frame at the head of its inbound channel
RouterTakes == taken' # taken

\* every reply channel, the chunk channel among them
AllChans ==
    [chunk |-> chunk_chan, summary |-> reply_chan["summary"],
     set_mode_range_ack |-> reply_chan["set_mode_range_ack"],
     mode_ranges |-> reply_chan["mode_ranges"]]

AllChansAfter ==
    [chunk |-> chunk_chan', summary |-> reply_chan'["summary"],
     set_mode_range_ack |-> reply_chan'["set_mode_range_ack"],
     mode_ranges |-> reply_chan'["mode_ranges"]]

\* the channel of a command code and the value of a frame, in the words of
\* the routing table
KindOf(cmd) ==
    CASE cmd = "MSP_MODE_RANGES" -> "mode_ranges"
      [] cmd = "MSP_SET_MODE_RANGE" -> "set_mode_range_ack"
      [] cmd = "MSP_DATAFLASH_SUMMARY" -> "summary"
      [] cmd = "MSP_DATAFLASH_READ" -> "chunk"

\* the value of a dataflash-read reply: the little-endian u32 of the first
\* four payload bytes, and the bytes that remain
AddressAndBytes(data) ==
    [read_address |-> data.body[1] + 256 * data.body[2] + 65536 * data.body[3]
                         + 16777216 * data.body[4],
     len |-> data.len - 4]

\* C12: a frame that is not FromFlightController, or whose command code is
\* none of the four, is done with when received and nothing is pushed; a
\* FromFlightController frame with one of the four codes goes on to its send,
\* and that send pushes exactly one value, to the channel of its kind only,
\* for a dataflash-read reply the address and the remaining bytes.
C12_RoutesByKind ==
    [][/\ RouterTakes =>
             LET frame == Head(msp_reader) IN
             /\ AllChansAfter = AllChans
             /\ IF frame.direction = "FromFlightController"
                   /\ frame.cmd \in Recognized
                THEN qpc' = "send" /\ qframe' = frame
                ELSE qpc' = "recv" /\ pushed' = pushed
       /\ (qpc = "send" /\ qpc' # "send") =>
             LET ch == KindOf(qframe.cmd) IN
             /\ pushed' = Append(pushed, qframe.id)
             /\ Len(AllChansAfter[ch]) = Len(AllChans[ch]) + 1
             /\ \A other \in DOMAIN AllChans \ {ch} :
                   AllChansAfter[other] = AllChans[other]
             /\ qframe.cmd = "MSP_DATAFLASH_READ" =>
                   chunk_chan' = Append(chunk_chan, AddressAndBytes(qframe.data))]_vars

\* C13: a frame with a recognized command code whose payload does not decode
\* costs that frame only: the router pushes nothing for it and is back at its
\* inbound channel, ready for the frames that follow.
C13_UndecodableIsPerFrame ==
    [][(/\ RouterTakes
        /\ Head(msp_reader).direction = "FromFlightController"
        /\ Head(msp_reader).cmd \in Recognized
        /\ ~Decodes(Head(msp_reader))) =>
          /\ qpc' = "recv"
          /\ AllChansAfter = AllChans]_vars

\* ids in ascending order
Ascending(ids) == \A i, j \in 1..Len(ids) : i < j => ids[i] < ids[j]

\* the read pump stands at its send with the router's inbound channel full
PumpBlocked == ipc = "send" /\ Len(msp_reader) >= ChannelCap

\* C14: the frames the parser has completed are, in arrival order, the frames
\* the router has received, then the frame in its inbound channel, then the
\* frame the read pump holds at its send (which it keeps while the channel is
\* full): none is discarded; and the values pushed to the reply channels are
\* of frames the router received, in arrival order.
C14_DecodedReachRouterInOrder ==
    /\ [](/\ decoded = taken \o Ids(msp_reader)
                             \o Ids(IF ipc = "send" THEN <<iframe>> ELSE <<>>)
          /\ Ascending(decoded)
          /\ Ascending(pushed)
          /\ \A i \in 1..Len(pushed) : \E j \in 1..Len(taken) : taken[j] = pushed[i])
    /\ [][PumpBlocked => (ipc' = "send" /\ iframe' = iframe)]_vars

C14_Witness ==
    /\ PumpBlocked
    /\ Len(pushed) >= 2
    /\ result.kind = "Ok"
    /\ chunk_chan # <<>>

\* C15: the read pump never holds the parser lock while it is suspended on
\* its send to the router's inbound channel: the lock is held only around
\* parse() and reset().
C15_LockNotHeldAcrossSend == ~(parser_lock = "pump" /\ PumpBlocked)

\* the router stands at a send to a reply channel that is full
RouterBlocked ==
    qpc = "send" /\ Len(AllChans[RouteChanOf(qframe.cmd)]) >= ChannelCap

\* C19: read_chunk() never waits for the parser lock while the read pump
\* holds it blocked on the full inbound channel and the router is blocked on
\* a full reply channel: the three never form a wait cycle.
C19_NoWaitCycle ==
    ~(/\ rpc = "lock"
      /\ parser_lock = "pump"
      /\ PumpBlocked
      /\ RouterBlocked)

\* the chunk reply with arrival number k is in the router's inbound channel, a
\* read_chunk() call waits on the chunk channel, and the router stands at its
\* send of a reply of another kind whose channel holds an unread value
ChunkBehindOtherKind(k) ==
    /\ msp_reader # <<>>
    /\ Head(msp_reader).id = k
    /\ Head(msp_reader).direction = "FromFlightController"
    /\ Head(msp_reader).cmd = "MSP_DATAFLASH_READ"
    /\ Decodes(Head(msp_reader))
    /\ rpc = "wait"
    /\ RouterBlocked
    /\ RouteChanOf(qframe.cmd) # "chunk"

\* C20: a chunk reply in the router's inbound channel behind a reply of
\* another kind, whose channel holds a value nobody takes, is still
\* delivered to the chunk channel in the end.
C20_ChunkDeliveredBehindUnread ==
    \A k \in 1..MaxInbound :
        ChunkBehindOtherKind(k) ~> (\E i \in 1..Len(pushed) : pushed[i] = k)

\* C16: a reply the router has pushed stays in the channel of its kind, also
\* after the call it answers has returned TimedOut, until a call of that kind
\* waits on the channel; that call returns the value, whichever request the
\* value answers. The router pushes whatever the facade is doing.
C16_LateReplyStays ==
    [][/\ \A ch \in DOMAIN reply_chan :
             (reply_chan[ch] # <<>> /\ reply_chan'[ch] # reply_chan[ch]) =>
                /\ fpc = "wait"
                /\ AwaitedChannel = ch
                /\ fpc' = "idle"
                /\ fresult' = ReturnOf(fcall.fn, Head(reply_chan[ch]))
                /\ reply_chan'[ch] = Tail(reply_chan[ch])
       /\ (qpc = "send" /\ qpc' = "recv") =>
             AllChansAfter[KindOf(qframe.cmd)]
                 = Append(AllChans[KindOf(qframe.cmd)], RouteValueOf(qframe))]_vars

\* the second call, a flash_summary(), has returned the reply to the first
C16_Witness ==
    /\ fpc = "idle"
    /\ fcall.fn = "flash_summary"
    /\ submitted = 2
    /\ link_log = <<1>>
    /\ fresult = Ok([used_size_bytes |-> DeviceUsed(1)])

\* a facade call stands at the submission of its request with the one-slot
\* outbound queue full and the write pump holding a frame the link does not
\* take
SubmitsBehindStuckPump ==
    /\ fpc = "send"
    /\ submitted < MaxFrames
    /\ Len(msp_writer) >= ChannelCap
    /\ wpc # "recv"
    /\ Len(link_tx) >= LinkCap

\* C17: a call of flash_summary(), set_mode_range() or get_mode_ranges()
\* returns in the end, also when it finds the outbound queue full behind a
\* write pump whose write keeps timing out.
C17_CallReturns == SubmitsBehindStuckPump ~> (fpc = "idle")

\* read_chunk() takes a reply off the chunk channel and returns
AcceptsReply ==
    rpc = "wait" /\ chunk_chan # <<>> /\ chunk_chan' = Tail(chunk_chan) /\ rpc' = "idle"

\* C18: every reply read_chunk() accepts has read_address equal to
\* next_address at that moment, so the payloads returned follow one another
\* with no range skipped or returned twice.
C18_AcceptedAtNextAddress ==
    [][AcceptsReply => Head(chunk_chan).read_address = next_address]_vars

====
